---- MODULE Spec2Model ----
(***************************************************************************)
(* dirusage.py: tree() renders the sub-directories of a root, filtered by  *)
(* a minimum size and sorted by size, down to a maximum depth; dir_size()  *)
(* sums the regular files below a directory; main() drives both.           *)
(*                                                                         *)
(* A path is the sequence of its components, the root argument first.      *)
(* Every node of the file system has a unique name, so a path resolves to  *)
(* the node named by its last component (through the link if it is one).   *)
(***************************************************************************)
EXTENDS Integers, Sequences, FiniteSets, TLC

VARIABLES
    scandir,    \* directory node -> its entries, in enumeration order
    st_size,    \* regular file -> byte length
    target,     \* what the symbolic link "l" points to
    bad,        \* the entry that is inaccessible (scandir/stat raises), or None
    path,       \* args.path: the root argument
    root_seps,  \* number of os.sep in args.path
    max_depth,  \* args.max_depth
    min_size,   \* args.min_size (MB)
    pc,         \* position of main()
    stack,      \* activation records of tree(), innermost last
    sstack,     \* activation records of dir_size(args.path), innermost last
    ret,        \* directory node -> value its dir_size() activation returned
    tree_ret,   \* what the top-level tree() call returned
    out,        \* what has been printed to stdout
    stderr,     \* what has been printed to stderr
    status,     \* the process's exit status
    run,        \* 1: first invocation, 2: invocation repeated one level deeper
    prev,       \* the tree lines of the first invocation
    visited     \* the paths whose tree() call got past the depth test

vars == <<scandir, st_size, target, bad, path, root_seps, max_depth, min_size,
          pc, stack, sstack, ret, tree_ret, out, stderr, status, run, prev,
          visited>>

fsvars == <<scandir, st_size, target, bad>>

----------------------------------------------------------------------------
(* Bounds of the model *)

MaxDepthArg == 4
MaxMinSize == 1
MaxRootSeps == 1
MaxFileUnits == 2

\* file sizes are multiples of half a megabyte
FileUnit == (1024 * 1024) \div 2

\* more frames than any reachable depth budget allows
MaxStack == MaxDepthArg + 3

\* no entry / no value
None == "None"
\* the value standing for a raised exception, or for a number not yet set
ERR == 0 - 1

----------------------------------------------------------------------------
(* The file systems the program is run on *)

RealDirs == {"r", "a", "b", "c", "a1", "a2", "a1x", "a1y", "a2x", "a1x1", "a1y1"}
Files == {"f0", "fb", "f2", "fx", "fy"}
Nodes == RealDirs \cup Files \cup {"l", "dev"}

\* the entries of each directory, in one enumeration order
Listing ==
    [d \in RealDirs |->
        CASE d = "r"    -> <<"a", "f0", "b", "dev", "c", "l">>
          [] d = "a"    -> <<"a1", "a2">>
          [] d = "a1"   -> <<"a1x", "a1y">>
          [] d = "a2"   -> <<"a2x">>
          [] d = "a1x"  -> <<"a1x1">>
          [] d = "a1y"  -> <<"a1y1">>
          [] d = "a1x1" -> <<"fx">>
          [] d = "a1y1" -> <<"fy">>
          [] d = "a2x"  -> <<"f2">>
          [] d = "b"    -> <<"fb">>
          [] OTHER      -> <<>>]

Kind(n) ==
    IF n \in RealDirs THEN "dir"
    ELSE IF n \in Files THEN "file"
    ELSE IF n = "l" THEN "link"
    ELSE IF n = "dev" THEN "other"
    ELSE "absent"

Reverse(s) == [i \in 1..Len(s) |-> s[Len(s) + 1 - i]]

Sizes == {k * FileUnit : k \in 0..MaxFileUnits}

----------------------------------------------------------------------------
(* os / os.path *)

\* the node a path names, following a symbolic link in its last component
Resolve(p) ==
    LET n == p[Len(p)] IN IF Kind(n) = "link" THEN target ELSE n

\* os.path.isdir(path): follows symbolic links
isdir(p) == Kind(Resolve(p)) = "dir"

\* DirEntry.is_dir(): follows symbolic links
is_dir(n) == Kind(IF Kind(n) = "link" THEN target ELSE n) = "dir"

\* DirEntry.is_dir(follow_symlinks=False)
is_dir_nofollow(n) == Kind(n) = "dir"

\* a mutant of is_file_nofollow: the link is followed
is_file_follow(n) == Kind(IF Kind(n) = "link" THEN target ELSE n) = "file"

\* DirEntry.is_file(follow_symlinks=False)
is_file_nofollow(n) == Kind(n) = "file"

\* DirEntry.stat().st_size: follows symbolic links
stat_size(n) == st_size[IF Kind(n) = "link" THEN target ELSE n]

\* dir.count(os.sep): every component below the root adds one separator
Depth(p) == root_seps + (Len(p) - 1)

----------------------------------------------------------------------------
(* dir_size(path), as the function tree() calls; ERR when it raises *)

RECURSIVE DirSize(_), DirSizeLoop(_, _, _, _)

DirSize(p) ==
    IF Resolve(p) = bad THEN ERR
    ELSE DirSizeLoop(p, scandir[Resolve(p)], 1, 0)

DirSizeLoop(p, es, i, size) ==
    IF i > Len(es) THEN size
    ELSE IF is_dir_nofollow(es[i])
         THEN CHOOSE r \in {IF s = ERR THEN ERR ELSE DirSizeLoop(p, es, i + 1, size + s) :
                              s \in {DirSize(Append(p, es[i]))}} : TRUE
    ELSE IF is_file_nofollow(es[i])
         THEN IF es[i] = bad THEN ERR
              ELSE DirSizeLoop(p, es, i + 1, size + stat_size(es[i]))
    ELSE DirSizeLoop(p, es, i + 1, size)

----------------------------------------------------------------------------
(* tree() *)

Spaces(n) == [i \in 1..n |-> " "]

\* pre_padding = 11 blanks
pre_padding == Spaces(11)

\* the 18 blanks added to padding below the first nested level
Block == Spaces(18)

\* the box-drawing characters of lines 63, 65 and 73: the vertical bar,
\* the branch and the closing branch (each glyph with its trailing blank)
BAR == "|"
TEE == "|-- "
ELL == "+-- "

\* padding[:-1]
ButLast(s) == IF Len(s) = 0 THEN s ELSE SubSeq(s, 1, Len(s) - 1)

Range(s) == {s[i] : i \in 1..Len(s)}

\* a mutant of DepthStop: one level too deep
DepthStopLate(depth, md) == depth > md

\* depth >= max_depth: the call returns at once
DepthStop(depth, md) == depth >= md

\* a mutant of MeetsMin: a directory of exactly the minimum size is dropped
MeetsMinStrict(size, ms) == size > ms * (1024 ^ 2)

\* dir_size(d.path) >= (min_size * 1024**2)
MeetsMin(size, ms) == size >= ms * (1024 ^ 2)

\* a mutant of KeepsAhead: equal keys change places (ascending sort, reversed)
KeepsAheadStrict(ky, kx) == ky > kx

\* sorted(..., reverse=True) is stable: an element placed earlier stays ahead
\* of a later one unless the key of the later one is larger
KeepsAhead(ky, kx) == ky >= kx

\* x is put behind the elements of acc that stay ahead of it
\* (CHOOSE r \in {e(v) : v \in {d}} : TRUE is LET v == d IN e(v), with d
\* evaluated once)
Insert(acc, key, x) ==
    CHOOSE r \in
      {SubSeq(acc, 1, k) \o <<x>> \o SubSeq(acc, k + 1, Len(acc)) :
         k \in {Cardinality({j \in 1..Len(acc) : KeepsAhead(key[acc[j]], key[x])})}} :
      TRUE

RECURSIVE SortedFrom(_, _, _, _)
SortedFrom(s, key, i, acc) ==
    IF i > Len(s) THEN acc
    ELSE CHOOSE r \in {SortedFrom(s, key, i + 1, a) : a \in {Insert(acc, key, s[i])}} :
           TRUE

\* sorted(s, key=..., reverse=True)
sorted(s, key) ==
    CHOOSE r \in {SortedFrom(t, key, 1, <<>>) : t \in {s}} : TRUE

\* a mutant of ChildIsFirst: the recursive call leaves isFirst at its default
ChildIsFirstDefault == TRUE

\* the isFirst argument of every recursive call
ChildIsFirst == FALSE

\* a mutant of IsLastIndex: the count is compared with the last index
IsLastIndexOff(i, n) == i = n

\* isLast = i == last, with last = len(dirs) - 1 (i counts from 0)
IsLastIndex(i, n) == i = n - 1

\* a mutant of Indent: the block is added from the first nested level on
IndentEarly(depth, start, padding) ==
    IF depth > start THEN padding \o Block ELSE padding

\* if depth > (start_depth + 1): padding = padding + 18 blanks
Indent(depth, start, padding) ==
    IF depth > (start + 1) THEN padding \o Block ELSE padding

Msg(t, bytes) ==
    [t |-> t, path |-> <<>>, prefix |-> <<>>, glyph |-> "", bytes |-> bytes]

\* one printed tree line: what precedes the glyph, the glyph, the size handed
\* to human() and the directory it is for
Line(p, prefix, glyph, bytes) ==
    [t |-> "line", path |-> p, prefix |-> prefix, glyph |-> glyph, bytes |-> bytes]

NoFrame ==
    [dir |-> <<>>, max_depth |-> 0, min_size |-> 0, padding |-> <<>>,
     isFirst |-> FALSE, start_depth |-> 0, dirs |-> <<>>, i |-> 0]

\* tree(dir, max_depth, min_size, padding, isLast, isFirst, start_depth) up
\* to the start of its loop: it returns at once, raises, or has its sorted
\* list of directories to go through
TreeCall(dir, md, ms, padding, isFirst, sd) ==
    LET depth == Depth(dir)
        start == IF sd = ERR THEN depth ELSE sd
        maxd  == IF isFirst THEN depth + md ELSE md
    IN  IF DepthStop(depth, maxd) THEN [res |-> "return", frame |-> NoFrame]
        ELSE IF Resolve(dir) = bad THEN [res |-> "raise", frame |-> NoFrame]
        ELSE
          LET cand == SelectSeq(scandir[Resolve(dir)], is_dir)
              key  == [n \in Range(cand) |-> DirSize(Append(dir, n))]
              Big(n) == MeetsMin(key[n], ms)
          IN  IF \E n \in Range(cand) : key[n] = ERR
              THEN [res |-> "raise", frame |-> NoFrame]
              ELSE [res |-> "frame",
                    frame |-> [dir |-> dir, max_depth |-> maxd, min_size |-> ms,
                               padding |-> Indent(depth, start, padding),
                               isFirst |-> isFirst, start_depth |-> start,
                               dirs |-> sorted(SelectSeq(cand, Big), key),
                               i |-> 1]]

Top(s) == s[Len(s)]
Pop(s) == SubSeq(s, 1, Len(s) - 1)

IsLine(m) == m.t = "line"
TreeLines(o) == SelectSeq(o, IsLine)

\* an exception reaches main's handler: print(e); return 1
Raise ==
    /\ out' = Append(out, Msg("error", 0))
    /\ status' = 1
    /\ pc' = "exited"
    /\ stack' = <<>>
    /\ sstack' = <<>>
    /\ UNCHANGED <<fsvars, path, root_seps, max_depth, min_size, ret, tree_ret,
                   stderr, run, prev, visited>>

\* main() up to and including its call of tree()
MainStart ==
    /\ pc = "start"
    /\ IF ~isdir(<<path>>)
       THEN \* parser.error() writes the usage to stderr and exits with 2
            /\ stderr' = Append(stderr, "usage")
            /\ status' = 2
            /\ pc' = "exited"
            /\ UNCHANGED <<fsvars, path, root_seps, max_depth, min_size, stack,
                           sstack, ret, tree_ret, out, run, prev, visited>>
       ELSE \E c \in {TreeCall(<<path>>, max_depth, min_size, <<>>, TRUE, ERR)} :
            LET hdr == out \o <<Msg("header", 0), Msg("header", 0), Msg("blank", 0)>>
            IN  IF c.res = "raise"
                THEN /\ out' = Append(hdr, Msg("error", 0))
                     /\ status' = 1
                     /\ pc' = "exited"
                     /\ UNCHANGED <<fsvars, path, root_seps, max_depth, min_size,
                                    stack, sstack, ret, tree_ret, stderr, run, prev, visited>>
                ELSE /\ out' = hdr
                     /\ IF c.res = "return"
                        THEN /\ tree_ret' = "None"
                             /\ pc' = "statvfs"
                             /\ stack' = stack
                        ELSE /\ tree_ret' = tree_ret
                             /\ pc' = "tree"
                             /\ stack' = <<c.frame>>
                     /\ visited' = IF c.res = "frame" THEN visited \cup {<<path>>}
                                   ELSE visited
                     /\ UNCHANGED <<fsvars, path, root_seps, max_depth, min_size,
                                    sstack, ret, stderr, status, run, prev>>

\* one iteration of tree()'s loop: the line, then the recursive call
TreeLoop ==
    /\ pc = "tree"
    /\ Len(stack) < MaxStack
    /\ \E fr \in {Top(stack)} :
       /\ fr.i <= Len(fr.dirs)
       /\ \E p \in {Append(fr.dir, fr.dirs[fr.i])},
             bytes \in {DirSize(Append(fr.dir, fr.dirs[fr.i]))} :
          LET isLast == IsLastIndex(fr.i - 1, Len(fr.dirs))
              count  == fr.i
              line   == IF fr.isFirst
                        THEN Line(p, <<" ">>, "", bytes)
                        ELSE Line(p, pre_padding \o ButLast(fr.padding),
                                  IF isLast THEN ELL ELSE TEE, bytes)
              arg    == IF count = Len(fr.dirs)
                        THEN Append(ButLast(fr.padding), " ")
                        ELSE IF fr.isFirst THEN fr.padding
                        ELSE Append(ButLast(fr.padding), BAR)
              next   == [stack EXCEPT ![Len(stack)].i = fr.i + 1]
          IN  \E c \in {IF isdir(p)
                        THEN TreeCall(p, fr.max_depth, fr.min_size, arg,
                                      ChildIsFirst, fr.start_depth)
                        ELSE [res |-> "return", frame |-> NoFrame]} :
              IF bytes = ERR \/ c.res = "raise"
              THEN /\ out' = IF bytes = ERR THEN Append(out, Msg("error", 0))
                             ELSE out \o <<line, Msg("error", 0)>>
                   /\ status' = 1
                   /\ pc' = "exited"
                   /\ stack' = <<>>
                   /\ UNCHANGED <<fsvars, path, root_seps, max_depth, min_size,
                                  sstack, ret, tree_ret, stderr, run, prev, visited>>
              ELSE /\ out' = Append(out, line)
                   /\ stack' = IF c.res = "frame" THEN Append(next, c.frame) ELSE next
                   /\ visited' = IF c.res = "frame" THEN visited \cup {p} ELSE visited
                   /\ UNCHANGED <<fsvars, path, root_seps, max_depth, min_size, pc,
                                  sstack, ret, tree_ret, stderr, status, run, prev>>

\* tree()'s loop is over: return 0
TreeReturn ==
    /\ pc = "tree"
    /\ Top(stack).i > Len(Top(stack).dirs)
    /\ stack' = Pop(stack)
    /\ IF Len(stack) = 1
       THEN tree_ret' = "0" /\ pc' = "statvfs"
       ELSE tree_ret' = tree_ret /\ pc' = pc
    /\ UNCHANGED <<fsvars, path, root_seps, max_depth, min_size, sstack, ret, out,
                   stderr, status, run, prev, visited>>

----------------------------------------------------------------------------
(* dir_size(args.path), the call of main(), one entry at a time *)

\* main() after tree(): statvfs, the rule, and the call of dir_size
MainTotal ==
    /\ pc = "statvfs"
    /\ pc' = "dir_size"
    /\ out' = out \o <<Msg("blank", 0), Msg("rule", 0)>>
    /\ sstack' = <<[path |-> <<path>>, i |-> 1, size |-> 0]>>
    /\ UNCHANGED <<fsvars, path, root_seps, max_depth, min_size, stack, ret,
                   tree_ret, stderr, status, run, prev, visited>>

\* one entry of the loop of dir_size()
DirSizeStep ==
    /\ pc = "dir_size"
    /\ LET fr == Top(sstack)
           es == scandir[Resolve(fr.path)]
       IN
       /\ fr.i <= Len(es)
       /\ LET e == es[fr.i] IN
          IF (is_dir_nofollow(e) \/ is_file_nofollow(e)) /\ e = bad
          THEN Raise
          ELSE /\ sstack' =
                    IF is_dir_nofollow(e)
                    THEN Append(sstack, [path |-> Append(fr.path, e), i |-> 1, size |-> 0])
                    ELSE IF is_file_nofollow(e)
                    THEN [sstack EXCEPT ![Len(sstack)] =
                             [fr EXCEPT !.i = fr.i + 1, !.size = fr.size + stat_size(e)]]
                    ELSE [sstack EXCEPT ![Len(sstack)].i = fr.i + 1]
               /\ UNCHANGED <<fsvars, path, root_seps, max_depth, min_size, pc, stack,
                              ret, tree_ret, out, stderr, status, run, prev, visited>>

\* return size: to the calling dir_size(), or to main(), which prints the
\* totals and returns 0
DirSizeReturn ==
    /\ pc = "dir_size"
    /\ LET fr == Top(sstack) IN
       /\ fr.i > Len(scandir[Resolve(fr.path)])
       /\ ret' = [ret EXCEPT ![Resolve(fr.path)] = fr.size]
       /\ IF Len(sstack) > 1
          THEN LET up == sstack[Len(sstack) - 1] IN
               /\ sstack' = [Pop(sstack) EXCEPT ![Len(sstack) - 1] =
                                [up EXCEPT !.i = up.i + 1, !.size = up.size + fr.size]]
               /\ UNCHANGED <<pc, out, status>>
          ELSE /\ sstack' = <<>>
               /\ out' = out \o <<Msg("total", fr.size), Msg("free", 0)>>
               /\ status' = 0
               /\ pc' = "exited"
    /\ UNCHANGED <<fsvars, path, root_seps, max_depth, min_size, stack, tree_ret,
                   stderr, run, prev, visited>>

\* the program is run again on the same file system, one level deeper
Rerun ==
    /\ pc = "exited"
    /\ status = 0
    /\ run = 1
    /\ run' = 2
    /\ prev' = TreeLines(out)
    /\ max_depth' = max_depth + 1
    /\ pc' = "start"
    /\ out' = <<>>
    /\ status' = ERR
    /\ tree_ret' = "unset"
    /\ ret' = [d \in RealDirs |-> ERR]
    /\ visited' = {}
    /\ UNCHANGED <<fsvars, path, root_seps, min_size, stack, sstack, stderr>>

----------------------------------------------------------------------------

Init ==
    /\ \E rev \in BOOLEAN :
          scandir = [d \in RealDirs |-> IF rev THEN Reverse(Listing[d]) ELSE Listing[d]]
    /\ \E x \in Sizes, y \in Sizes :
          st_size = [f \in Files |-> IF f = "fx" THEN x
                                     ELSE IF f = "fy" THEN y ELSE FileUnit]
    /\ target \in {"r", "a1", "f0"}
    /\ bad \in {None, "a2", "fy"}
    /\ path \in {"r", "f0", "nx"}
    /\ root_seps \in 0..MaxRootSeps
    /\ max_depth \in 0..MaxDepthArg
    /\ min_size \in 0..MaxMinSize
    /\ pc = "start"
    /\ stack = <<>>
    /\ sstack = <<>>
    /\ ret = [d \in RealDirs |-> ERR]
    /\ tree_ret = "unset"
    /\ out = <<>>
    /\ stderr = <<>>
    /\ status = ERR
    /\ run = 1
    /\ prev = <<>>
    /\ visited = {}

Next ==
    \/ MainStart
    \/ TreeLoop
    \/ TreeReturn
    \/ MainTotal
    \/ DirSizeStep
    \/ DirSizeReturn
    \/ Rerun

Spec == Init /\ [][Next]_vars

\* the runs whose termination is checked: every link target, inaccessible
\* entry, root, depth and minimum, with one enumeration order and the two
\* files one unit large
FairInit ==
    /\ Init
    /\ scandir = Listing
    /\ st_size["fx"] = FileUnit
    /\ st_size["fy"] = FileUnit

\* the interpreter always takes the next step of a running program
FairSpec == FairInit /\ [][Next]_vars /\ WF_vars(Next)

----------------------------------------------------------------------------
(* What the claims speak of *)

RECURSIVE SetSum(_, _)
SetSum(S, f) ==
    IF S = {} THEN 0
    ELSE LET x == CHOOSE y \in S : TRUE IN f[x] + SetSum(S \ {x}, f)

Lines == TreeLines(out)
Level(ln) == Len(ln.path) - 1
Done == pc = "exited" /\ status = 0
HasLine(q) == \E i \in 1..Len(out) : out[i].t = "line" /\ out[i].path = q
IsPrefix(q, v) == Len(q) <= Len(v) /\ SubSeq(v, 1, Len(q)) = q
Index(s, x) == CHOOSE k \in 1..Len(s) : s[k] = x
FilesIn(d) == {e \in Range(scandir[d]) : Kind(e) = "file"}
SubdirsIn(d) == {e \in Range(scandir[d]) : Kind(e) = "dir"}

\* the line for q is the last one printed for its parent
LastRendered(q) ==
    LET i == CHOOSE k \in 1..Len(out) : out[k].t = "line" /\ out[k].path = q
    IN  ~ \E j \in (i + 1)..Len(out) :
            out[j].t = "line" /\ ButLast(out[j].path) = ButLast(q)

\* C1: every value dir_size returns for a directory is the byte lengths of
\* its regular files plus the values returned for its real sub-directories;
\* links, devices and sockets add nothing.  The same holds of the size
\* printed on the line of a real directory.
C1_DirSizeSumsFilesAndSubdirs ==
    /\ \A d \in RealDirs :
          ret[d] # ERR =>
             ret[d] = SetSum(FilesIn(d), st_size) + SetSum(SubdirsIn(d), ret)
    /\ pc = "exited" =>
          \A i \in 1..Len(out) :
             (out[i].t = "line" /\ Kind(out[i].path[Len(out[i].path)]) = "dir") =>
                LET q == out[i].path
                    d == q[Len(q)]
                IN  out[i].bytes =
                       SetSum(FilesIn(d), st_size)
                       + SetSum(SubdirsIn(d), [c \in SubdirsIn(d) |-> DirSize(Append(q, c))])

\* dir_size has returned for a root that holds files, a device, nested
\* directories and a link to a regular file
C1_Witness ==
    /\ Done /\ target = "f0" /\ ret["r"] > 2 * FileUnit /\ ret["a1"] > 0
    /\ HasLine(<<"r", "a", "a1">>)

C3_SortedDescendingStable ==
    pc = "exited" =>
      \A i \in 1..Len(out) : \A j \in (i + 1)..Len(out) :
         (out[i].t = "line" /\ out[j].t = "line"
            /\ ButLast(out[i].path) = ButLast(out[j].path)) =>
            LET es == scandir[Resolve(ButLast(out[i].path))]
                ni == out[i].path[Len(out[i].path)]
                nj == out[j].path[Len(out[j].path)]
            IN  /\ out[i].bytes >= out[j].bytes
                /\ out[i].bytes = out[j].bytes => Index(es, ni) < Index(es, nj)

\* two siblings of equal, positive size were listed, a1y enumerated first
C3_Witness ==
    /\ Done /\ scandir["a1"][1] = "a1y"
    /\ HasLine(<<"r", "a", "a1", "a1y">>) /\ HasLine(<<"r", "a", "a1", "a1x">>)
    /\ st_size["fx"] = st_size["fy"] /\ st_size["fx"] > 0

\* C4: no line is for a directory more than max_depth levels below the
\* root; and the run with max_depth one larger prints the lines of the run
\* before, in the same order, and otherwise only lines exactly max_depth
\* levels down.
C4_DepthBound ==
    /\ \A i \in 1..Len(out) : out[i].t = "line" => Level(out[i]) <= max_depth
    /\ (Done /\ run = 2 /\ max_depth >= 2) =>
          LET Old(ln) == Level(ln) <= max_depth - 1
          IN  prev = SelectSeq(Lines, Old)

\* the second run, below a nested root, added lines at its deepest level
C4_Witness ==
    /\ Done /\ run = 2 /\ root_seps >= 1 /\ max_depth = 3
    /\ Len(prev) > 0
    /\ \E i \in 1..Len(out) : out[i].t = "line" /\ Level(out[i]) = 3

\* C5 as claimed: an inaccessible entry counts as zero, the run goes on and
\* ends successfully without an error message.
C5_InaccessibleEntrySkipped ==
    (pc = "exited" /\ isdir(<<path>>) /\ bad # None) =>
       /\ status = 0
       /\ \A i \in 1..Len(out) : out[i].t # "error"

\* C6 as claimed: no line is ever printed for a symbolic link, nor for
\* anything reached through one.
C6_SymlinksOpaque ==
    \A i \in 1..Len(out) :
       out[i].t = "line" =>
          \A k \in 1..Len(out[i].path) : Kind(out[i].path[k]) # "link"

\* C7 as claimed: a root that is no directory ends the process with status
\* 1, after a usage error and before any tree line.
C7_InvalidRootExitsOne ==
    (pc = "exited" /\ ~isdir(<<path>>)) =>
       /\ status = 1
       /\ stderr # <<>>
       /\ Lines = <<>>

\* C8 as claimed: at any level, the last line of a directory carries the
\* closing branch and every other line the branch.
C8_GlyphAtAnyLevel ==
    Done =>
      \A i \in 1..Len(out) :
         out[i].t = "line" =>
            out[i].glyph = IF LastRendered(out[i].path) THEN ELL ELSE TEE

\* C8 as amended: at every nested level (two or more levels below the
\* root) the last line of a directory carries the closing branch and every
\* other line the branch; the lines of the top level carry no branch.
C8_GlyphAtNestedLevels ==
    Done =>
      \A i \in 1..Len(out) :
         out[i].t = "line" =>
            out[i].glyph = IF Level(out[i]) = 1 THEN ""
                           ELSE IF LastRendered(out[i].path) THEN ELL ELSE TEE

\* both branches were printed three levels down, and two top-level lines
C8_Witness ==
    /\ Done
    /\ \E i \in 1..Len(out) : out[i].t = "line" /\ Level(out[i]) = 3 /\ out[i].glyph = TEE
    /\ \E i \in 1..Len(out) : out[i].t = "line" /\ Level(out[i]) = 3 /\ out[i].glyph = ELL
    /\ HasLine(<<"r", "a">>) /\ HasLine(<<"r", "b">>)

\* C9: every run ends, also on a link to an ancestor; and once the
\* top-level tree() has returned, it returned 0 if max_depth >= 1.
C9_Terminates ==
    /\ <>[](pc = "exited")
    /\ [](pc \in {"statvfs", "dir_size"} =>
            tree_ret = IF max_depth >= 1 THEN "0" ELSE "None")

\* a run over the link to the root ended after going through the link twice
C9_Witness ==
    /\ Done /\ target = "r" /\ tree_ret = "0" /\ ret["r"] # ERR
    /\ HasLine(<<"r", "l", "l", "a">>)

RECURSIVE PadUpTo(_, _)
\* the blocks of the ancestors of p at levels 2..j
PadUpTo(p, j) ==
    IF j < 2 THEN <<>>
    ELSE PadUpTo(p, j - 1)
         \o <<IF LastRendered(SubSeq(p, 1, j + 1)) THEN " " ELSE BAR>>
         \o [i \in 1..17 |-> " "]

\* C10: before the branch of a line k >= 2 levels down stand 11 blanks and
\* k-2 blocks of 18 characters, one per ancestor at levels 2..k-1 from the
\* root down: a bar if the ancestor was not the last line of its parent, a
\* blank if it was, then 17 blanks.
C10_PrefixBlocks ==
    Done =>
      \A i \in 1..Len(out) :
         (out[i].t = "line" /\ Level(out[i]) >= 2) =>
            out[i].prefix = [k \in 1..11 |-> " "] \o PadUpTo(out[i].path, Level(out[i]) - 1)

\* a line four levels down below a non-last ancestor and a last one, under
\* a top-level ancestor that was not the last
C10_Witness ==
    /\ Done /\ HasLine(<<"r", "a">>) /\ ~LastRendered(<<"r", "a">>)
    /\ \E i \in 1..Len(out) :
          /\ out[i].t = "line" /\ Level(out[i]) = 4
          /\ out[i].prefix[12] = BAR /\ out[i].prefix[30] = " "

====
